---------------------------- MODULE Spec2Model ----------------------------
(***************************************************************************)
(* A model of the Typecraft Binary Format codec (tbf.core.parsing and      *)
(* tbf.core.models): the _Writer that serialises a Document and the        *)
(* _Parser that reads one back.                                            *)
(*                                                                         *)
(* Python values are modelled as follows.                                  *)
(*   - a str is [kind |-> "str", s |-> <<code points>>], a bytes object is *)
(*     [kind |-> "bytes", s |-> <<byte values>>];                          *)
(*   - a dict is a sequence of [k, v] entries in insertion order (the      *)
(*     iteration order of CPython 3.6 and later);                          *)
(*   - a LayerObject reference (a child link) is the pair <<l, o>> of the  *)
(*     1-based positions of the object's layer and of the object in it;    *)
(*   - an exception is the name of its class in the err field of a result. *)
(***************************************************************************)
EXTENDS Integers, Sequences, FiniteSets, TLC

VARIABLES
    document,                \* the Document handed to the first _Writer
    phase,                   \* "encode", "decode", "reencode": which object is at work
    wdoc,                    \* _Writer.document
    wpc,                     \* the next call of _Writer.write, "done" or "raised"
    output,                  \* _Writer.output: the bytes written so far
    werr,                    \* the exception _Writer.write raised, or "none"
    temp_relations,          \* _Writer._temp_relations
    temp_num_of_relations,   \* _Writer._temp_num_of_relations
    temp_attributes,         \* _Writer._temp_attributes
    temp_num_of_chunks,      \* _Writer._temp_num_of_chunks
    wtrace,                  \* history: the sections written, with their bytes
    chunks,                  \* history: the chunks _write_attrs started
    encoded,                 \* the bytes the first _Writer produced
    stream,                  \* _Parser.stream: all the bytes of the source
    ppc,                     \* the next call of _Parser.parse, "done" or "raised"
    pstate,                  \* the _Parser: position, document, encoding, error
    objs,                    \* the LayerObjects built with the model API
    mlayers                  \* the Layers built with it: id and object list

vars == <<document, phase, wdoc, wpc, output, werr, temp_relations,
          temp_num_of_relations, temp_attributes, temp_num_of_chunks,
          wtrace, chunks, encoded, stream, ppc, pstate, objs, mlayers>>

wvars == <<wdoc, wpc, output, werr, temp_relations, temp_num_of_relations,
           temp_attributes, temp_num_of_chunks, wtrace, chunks>>

pvars == <<stream, ppc, pstate>>

mvars == <<objs, mlayers>>

---------------------------------------------------------------------------
(* tbf.core.constants: the marker bytes.                                   *)

SEPARATOR == 0
HEADER_START == 1
HEADER_END == 2
LAYERS_START == 3
LAYERS_END == 4
ATTRS_START == 5
ATTRS_END == 6
RELATIONS_START == 7
RELATIONS_END == 8
LAYER_START == 9
LAYER_END == 10
CHUNK_FULL_START == 11
CHUNK_LINKED_START == 12
CHUNK_END == 13
RELATION_START == 14
RELATION_END == 15

---------------------------------------------------------------------------
(* Bounds of the model.                                                    *)

MaxObjs == 6        \* objects in the layer whose size varies
MaxCarriers == 2    \* leading objects of that layer that may carry attributes
MaxEdges == 3       \* child links in a document of the relations family
MaxId == 2          \* layer ids and object indices a hand-made stream names
MaxHeap == 2        \* LayerObjects built with the model API
MaxModelLayers == 2 \* Layers built with the model API
MaxList == 2        \* objects in the object list of such a Layer
MaxLen == 4         \* bytes of a stream given to _eat_until_sep

---------------------------------------------------------------------------
(* Python values.                                                          *)

Str(s) == [kind |-> "str", s |-> s]
Bytes(s) == [kind |-> "bytes", s |-> s]

Min(a, b) == IF a < b THEN a ELSE b

utf8 == Str(<<117, 116, 102, 45, 56>>)            \* 'utf-8'

\* A dict as a sequence of entries in insertion order.
DictKeys(d) == {d[i].k : i \in DOMAIN d}
DictIndex(d, k) == CHOOSE i \in DOMAIN d : d[i].k = k
DictGet(d, k) == d[DictIndex(d, k)].v
DictSet(d, k, v) ==
    IF k \in DictKeys(d) THEN [d EXCEPT ![DictIndex(d, k)].v = v]
    ELSE Append(d, [k |-> k, v |-> v])
DictSetDefault(d, k, v) == IF k \in DictKeys(d) THEN d ELSE Append(d, [k |-> k, v |-> v])

\* str.encode('utf-8') of one code point below 2048, and of a string.
Utf8Char(c) == IF c < 128 THEN <<c>> ELSE <<192 + (c \div 64), 128 + (c % 64)>>

RECURSIVE Utf8Encode(_)
Utf8Encode(s) == IF s = <<>> THEN <<>> ELSE Utf8Char(Head(s)) \o Utf8Encode(Tail(s))

\* int.to_bytes(number_of_bytes=4, 'big')
_int_to_bytes(number) ==
    << (number \div 16777216) % 256, (number \div 65536) % 256,
       (number \div 256) % 256, number % 256 >>

\* chr(flag).encode()
_ord_to_bytes(flag) == Utf8Char(flag)

---------------------------------------------------------------------------
(* tbf.core.models                                                         *)

LayerObject(_id, layer_id, children, attrs) ==
    [id |-> _id, layer |-> layer_id, children |-> children, attrs |-> attrs]

Layer(_id, name, objects) == [id |-> _id, name |-> name, objects |-> objects]

Header(encoding) == [encoding |-> encoding]

Document(layers, header) == [layers |-> layers, header |-> header]

\* Document.layers_by_id[layer_id]: __init__ and add_layer both let the last
\* layer of an id win.
HasLayer(doc, layer_id) == \E i \in DOMAIN doc.layers : doc.layers[i].id = layer_id

get_layer_by_id(doc, layer_id) ==
    LET last == CHOOSE i \in DOMAIN doc.layers :
                    /\ doc.layers[i].id = layer_id
                    /\ \A j \in DOMAIN doc.layers : doc.layers[j].id = layer_id => j <= i
    IN doc.layers[last]

\* The object a reference stands for.
Deref(doc, ref) == doc.layers[ref[1]].objects[ref[2]]

\* Document.get_all_objects, as references in (layer, object) order.
RECURSIVE RefsFrom(_, _)
RefsFrom(doc, l) ==
    IF l > Len(doc.layers) THEN <<>>
    ELSE [o \in 1..Len(doc.layers[l].objects) |-> <<l, o>>] \o RefsFrom(doc, l + 1)

get_all_objects(doc) == RefsFrom(doc, 1)

---------------------------------------------------------------------------
(* _Writer: the primitives. A result is the bytes written and the          *)
(* exception raised, "none" when the call returned.                        *)

Ok(bytes) == [out |-> bytes, err |-> "none"]
Raise(bytes, e) == [out |-> bytes, err |-> e]

\* r1 ; r2 : r2 runs only when r1 returned.
Then(r1, r2) == IF r1.err # "none" THEN r1 ELSE [out |-> r1.out \o r2.out, err |-> r2.err]

_write_flag(flag) == Ok(_ord_to_bytes(flag))

_write_sep == _write_flag(SEPARATOR)

_write_int(number) == Ok(_int_to_bytes(number))

\* _string.encode(self.encoding): a bytes object has no encode method.
_write_string(_string) ==
    IF _string.kind = "str" THEN Ok(Utf8Encode(_string.s)) ELSE Raise(<<>>, "AttributeError")

---------------------------------------------------------------------------
(* _Writer: the sections.                                                  *)

_write_header(doc) ==
    Then(_write_flag(HEADER_START),
    Then(Ok(Utf8Encode(doc.header.encoding.s)),
    Then(_write_sep,
         _write_flag(HEADER_END))))

\* _write_layer without the separator that ends the name.
_write_layer_NoSeparator(layer) ==
    Then(_write_flag(LAYER_START),
    Then(_write_string(layer.name),
    Then(_write_int(Len(layer.objects)),
         _write_flag(LAYER_END))))

_write_layer(layer) ==
    Then(_write_flag(LAYER_START),
    Then(_write_string(layer.name),
    Then(_write_sep,
    Then(_write_int(Len(layer.objects)),
         _write_flag(LAYER_END)))))

RECURSIVE WriteLayersFrom(_, _)
WriteLayersFrom(layers, i) ==
    IF i > Len(layers) THEN Ok(<<>>)
    ELSE Then(_write_layer(layers[i]), WriteLayersFrom(layers, i + 1))

_write_layers(doc) ==
    Then(_write_flag(LAYERS_START),
    Then(_write_int(Len(doc.layers)),
    Then(WriteLayersFrom(doc.layers, 1),
         _write_flag(LAYERS_END))))

\* The loop body of _prepare_relations_for_writing for one child:
\* setdefault(obj_layer, {}).setdefault(child_layer, []).append((obj.id, child.id))
AddRelation(rels, obj, child) ==
    LET rels1 == DictSetDefault(rels, obj.layer, <<>>)
        inner == DictSetDefault(DictGet(rels1, obj.layer), child.layer, <<>>)
        tuples == Append(DictGet(inner, child.layer), <<obj.id, child.id>>)
    IN DictSet(rels1, obj.layer, DictSet(inner, child.layer, tuples))

RECURSIVE AddChildrenFrom(_, _, _, _)
AddChildrenFrom(rels, doc, obj, j) ==
    IF j > Len(obj.children) THEN rels
    ELSE AddChildrenFrom(AddRelation(rels, obj, Deref(doc, obj.children[j])), doc, obj, j + 1)

RECURSIVE AddObjectsFrom(_, _, _, _)
AddObjectsFrom(rels, doc, refs, i) ==
    IF i > Len(refs) THEN rels
    ELSE AddObjectsFrom(AddChildrenFrom(rels, doc, Deref(doc, refs[i]), 1), doc, refs, i + 1)

RECURSIVE SumLen(_, _)
SumLen(d, i) == IF i > Len(d) THEN 0 ELSE Len(d[i].v) + SumLen(d, i + 1)

\* _prepare_relations_for_writing: the new _temp_relations and
\* _temp_num_of_relations.
\* _prepare_relations_for_writing counting a group for each parent layer.
_prepare_relations_for_writing_PerParent(doc, rels, num) ==
    LET rels1 == AddObjectsFrom(rels, doc, get_all_objects(doc), 1)
    IN [rels |-> rels1, num |-> num + Len(rels1)]

_prepare_relations_for_writing(doc, rels, num) ==
    LET rels1 == AddObjectsFrom(rels, doc, get_all_objects(doc), 1)
    IN [rels |-> rels1, num |-> num + SumLen(rels1, 1)]

RECURSIVE WritePairsFrom(_, _)
WritePairsFrom(value_tuples, i) ==
    IF i > Len(value_tuples) THEN Ok(<<>>)
    ELSE Then(_write_int(value_tuples[i][1]),
         Then(_write_int(value_tuples[i][2]),
              WritePairsFrom(value_tuples, i + 1)))

WriteRelation(parent_layer, child_layer, value_tuples) ==
    Then(_write_flag(RELATION_START),
    Then(_write_int(parent_layer),
    Then(_write_int(child_layer),
    Then(_write_int(Len(value_tuples)),
    Then(WritePairsFrom(value_tuples, 1),
         _write_flag(RELATION_END))))))

RECURSIVE WriteChildRelsFrom(_, _, _)
WriteChildRelsFrom(parent_layer, child_rels, j) ==
    IF j > Len(child_rels) THEN Ok(<<>>)
    ELSE Then(WriteRelation(parent_layer, child_rels[j].k, child_rels[j].v),
              WriteChildRelsFrom(parent_layer, child_rels, j + 1))

RECURSIVE WriteParentRelsFrom(_, _)
WriteParentRelsFrom(rels, i) ==
    IF i > Len(rels) THEN Ok(<<>>)
    ELSE Then(WriteChildRelsFrom(rels[i].k, rels[i].v, 1), WriteParentRelsFrom(rels, i + 1))

_write_relations(rels, num) ==
    Then(_write_flag(RELATIONS_START),
    Then(_write_int(num),
    Then(WriteParentRelsFrom(rels, 1),
         _write_flag(RELATIONS_END))))

\* The loop body of _prepare_attrs_for_writing for one object of a layer:
\* _temp_attributes[layer.id].setdefault(key, {})[obj.id] = value
RECURSIVE AddAttrsFrom(_, _, _)
AddAttrsFrom(layer_attrs, obj, j) ==
    IF j > Len(obj.attrs) THEN layer_attrs
    ELSE LET key == obj.attrs[j].k
             with_key == DictSetDefault(layer_attrs, key, <<>>)
             values == DictSet(DictGet(with_key, key), obj.id, obj.attrs[j].v)
         IN AddAttrsFrom(DictSet(with_key, key, values), obj, j + 1)

RECURSIVE AddLayerObjectsFrom(_, _, _)
AddLayerObjectsFrom(layer_attrs, objects, i) ==
    IF i > Len(objects) THEN layer_attrs
    ELSE AddLayerObjectsFrom(AddAttrsFrom(layer_attrs, objects[i], 1), objects, i + 1)

\* _prepare_attrs_for_writing: the new _temp_attributes and _temp_num_of_chunks.
RECURSIVE PrepareAttrsFrom(_, _, _, _)
PrepareAttrsFrom(doc, attrs, num, l) ==
    IF l > Len(doc.layers) THEN [attrs |-> attrs, num |-> num]
    ELSE LET layer == doc.layers[l]
             layer_attrs == AddLayerObjectsFrom(<<>>, layer.objects, 1)
         IN PrepareAttrsFrom(doc, DictSet(attrs, layer.id, layer_attrs),
                             num + Len(layer_attrs), l + 1)

_prepare_attrs_for_writing(doc, attrs, num) == PrepareAttrsFrom(doc, attrs, num, 1)

_linked_chunk_overhead(number_of_entities) == number_of_entities * 4 + number_of_entities * 1

_full_chunk_overhead(number_of_all_entities) == number_of_all_entities * 1

\* The loop of _write_full_chunk: attr_values.get(obj.id), written when truthy.
RECURSIVE WriteFullValuesFrom(_, _, _)
WriteFullValuesFrom(objects, attr_values, i) ==
    IF i > Len(objects) THEN Ok(<<>>)
    ELSE LET present == objects[i].id \in DictKeys(attr_values)
             value == IF present /\ DictGet(attr_values, objects[i].id).s # <<>>
                      THEN _write_string(DictGet(attr_values, objects[i].id))
                      ELSE Ok(<<>>)
         IN Then(value, Then(_write_sep, WriteFullValuesFrom(objects, attr_values, i + 1)))

_write_full_chunk(doc, layer_id, attr_name, attr_values) ==
    Then(_write_flag(CHUNK_FULL_START),
    Then(_write_int(layer_id),
    Then(_write_string(attr_name),
    Then(_write_sep,
    Then(WriteFullValuesFrom(get_layer_by_id(doc, layer_id).objects, attr_values, 1),
         _write_flag(CHUNK_END))))))

RECURSIVE WriteLinkedValuesFrom(_, _)
WriteLinkedValuesFrom(attr_values, i) ==
    IF i > Len(attr_values) THEN Ok(<<>>)
    ELSE Then(_write_int(attr_values[i].k),
         Then(_write_string(attr_values[i].v),
         Then(_write_sep,
              WriteLinkedValuesFrom(attr_values, i + 1))))

\* _write_linked_chunk writes no entry count and ends with self._write(CHUNK_END):
\* _Writer has no _write attribute.
_write_linked_chunk(layer_id, attr_name, attr_values) ==
    Then(_write_flag(CHUNK_LINKED_START),
    Then(_write_int(layer_id),
    Then(_write_string(attr_name),
    Then(_write_sep,
    Then(WriteLinkedValuesFrom(attr_values, 1),
         Raise(<<>>, "AttributeError"))))))

\* The layout the condition of _write_attrs selects for one chunk.
\* The choice of the layout with a tie of the overheads going to linked.
ChunkLayout_TiesLinked(doc, layer_id, attr_values) ==
    IF _linked_chunk_overhead(Len(attr_values))
           <= _full_chunk_overhead(Len(get_layer_by_id(doc, layer_id).objects))
    THEN "linked" ELSE "full"

ChunkLayout(doc, layer_id, attr_values) ==
    IF _linked_chunk_overhead(Len(attr_values))
           < _full_chunk_overhead(Len(get_layer_by_id(doc, layer_id).objects))
    THEN "linked" ELSE "full"

\* The body of the inner loop of _write_attrs: the result, and the history
\* record of the chunk.
WriteChunk(doc, layer_id, attr_name, attr_values) ==
    LET layout == ChunkLayout(doc, layer_id, attr_values)
        r == IF layout = "linked"
             THEN _write_linked_chunk(layer_id, attr_name, attr_values)
             ELSE _write_full_chunk(doc, layer_id, attr_name, attr_values)
    IN [out |-> r.out, err |-> r.err,
        chunks |-> << [layer_id |-> layer_id, attr_name |-> attr_name,
                       layout |-> layout, bytes |-> r.out, err |-> r.err] >>]

NoChunks(r) == [out |-> r.out, err |-> r.err, chunks |-> <<>>]

ThenC(r1, r2) ==
    IF r1.err # "none" THEN r1
    ELSE [out |-> r1.out \o r2.out, err |-> r2.err, chunks |-> r1.chunks \o r2.chunks]

RECURSIVE WriteLayerChunksFrom(_, _, _, _)
WriteLayerChunksFrom(doc, layer_id, layer_attrs, j) ==
    IF j > Len(layer_attrs) THEN NoChunks(Ok(<<>>))
    ELSE ThenC(WriteChunk(doc, layer_id, layer_attrs[j].k, layer_attrs[j].v),
               WriteLayerChunksFrom(doc, layer_id, layer_attrs, j + 1))

RECURSIVE WriteChunksFrom(_, _, _)
WriteChunksFrom(doc, attrs, i) ==
    IF i > Len(attrs) THEN NoChunks(Ok(<<>>))
    ELSE ThenC(WriteLayerChunksFrom(doc, attrs[i].k, attrs[i].v, 1),
               WriteChunksFrom(doc, attrs, i + 1))

_write_attrs(doc, attrs, num) ==
    ThenC(NoChunks(_write_flag(ATTRS_START)),
    ThenC(NoChunks(_write_int(num)),
    ThenC(WriteChunksFrom(doc, attrs, 1),
          NoChunks(_write_flag(ATTRS_END)))))

---------------------------------------------------------------------------
(* _Parser: the primitives. The parser state st holds the read position    *)
(* (the bytes consumed), the Document under construction, the encoding,    *)
(* the exception raised ("none" while parsing goes on) and history         *)
(* fields: short, the short reads of _read_as_int; fail, the call that     *)
(* raised; named, the layer ids and object indices the stream named;       *)
(* marks, the markers _expect consumed; peeks, the bytes _parse_chunk       *)
(* peeked at; eats, the calls of _eat_until_sep.                           *)

\* bytes.decode('utf-8') for code points below 2048: ok is FALSE where Python
\* raises UnicodeDecodeError.
RECURSIVE Utf8DecodeFrom(_, _)
Utf8DecodeFrom(b, i) ==
    IF i > Len(b) THEN [ok |-> TRUE, s |-> <<>>]
    ELSE IF b[i] < 128
         THEN LET rest == Utf8DecodeFrom(b, i + 1)
              IN [ok |-> rest.ok, s |-> <<b[i]>> \o rest.s]
    ELSE IF b[i] >= 194 /\ b[i] <= 223 /\ i + 1 <= Len(b) /\ b[i + 1] >= 128 /\ b[i + 1] <= 191
         THEN LET rest == Utf8DecodeFrom(b, i + 2)
              IN [ok |-> rest.ok, s |-> <<(b[i] - 192) * 64 + (b[i + 1] - 128)>> \o rest.s]
    ELSE [ok |-> FALSE, s |-> <<>>]

\* The names under which Python finds the utf-8 codec, among the names a
\* stream of the model can declare.
Utf8Names == {utf8, Str(<<117, 116, 102, 56>>), Str(<<117, 116, 102>>), Str(<<117, 56>>)}

\* bytes.decode(encoding): the str, or the exception.
decode(b, encoding) ==
    IF encoding \notin Utf8Names THEN [err |-> "LookupError", val |-> Str(<<>>)]
    ELSE LET d == Utf8DecodeFrom(b, 1)
         IN IF d.ok THEN [err |-> "none", val |-> Str(d.s)]
            ELSE [err |-> "UnicodeDecodeError", val |-> Str(<<>>)]

\* int.from_bytes(b, byteorder='big')
RECURSIVE from_bytes(_)
from_bytes(b) == IF b = <<>> THEN 0 ELSE from_bytes(SubSeq(b, 1, Len(b) - 1)) * 256 + b[Len(b)]

\* stream.read(length): the bytes left, at most length of them.
_read(s, pos, length) == SubSeq(s, pos + 1, Min(pos + length, Len(s)))

Fail(st, e, op, expected, got) ==
    [st EXCEPT !.err = e,
               !.fail = <<[op |-> op, pos |-> st.pos, expected |-> expected, got |-> got]>>]

\* _read_as_int(4): never raises; fewer than 4 bytes are taken as they come.
_read_as_int(st, s) ==
    LET b == _read(s, st.pos, 4)
    IN [st |-> [st EXCEPT !.pos = st.pos + Len(b),
                          !.short = IF Len(b) < 4
                                    THEN Append(@, [pos |-> st.pos, got |-> Len(b)])
                                    ELSE @],
        val |-> from_bytes(b)]

\* _peek_as_int(1): the next byte, not consumed; 0 at the end of the stream.
_peek_as_int(st, s) == from_bytes(_read(s, st.pos, 1))

\* _expect(byte): ord(b'') raises TypeError at the end of the stream.
_expect(st, s, byte) ==
    LET b == _read(s, st.pos, 1)
    IN IF st.err # "none" THEN st
       ELSE IF b = <<>> THEN Fail(st, "TypeError", "expect", byte, -1)
       ELSE IF b[1] # byte
            THEN [Fail(st, "TBFParsingException", "expect", byte, b[1]) EXCEPT !.pos = st.pos + 1]
       ELSE [st EXCEPT !.pos = st.pos + 1,
                       !.marks = Append(@, [pos |-> st.pos, byte |-> byte])]

\* The loop of _eat_until_sep with the separator left in the stream.
RECURSIVE EatFrom_LeavesSeparator(_, _, _)
EatFrom_LeavesSeparator(s, pos, temp) ==
    LET _next == _read(s, pos, 1)
    IN IF _next = <<>> THEN [pos |-> pos, val |-> temp]
       ELSE IF _next[1] = SEPARATOR THEN [pos |-> pos, val |-> temp]
       ELSE EatFrom_LeavesSeparator(s, pos + 1, temp \o _next)

\* The loop of _eat_until_sep: the position after it, and temp.
RECURSIVE EatFrom(_, _, _)
EatFrom(s, pos, temp) ==
    LET _next == _read(s, pos, 1)
    IN IF _next = <<>> THEN [pos |-> pos, val |-> temp]
       ELSE IF _next[1] = SEPARATOR THEN [pos |-> pos + 1, val |-> temp]
       ELSE EatFrom(s, pos + 1, temp \o _next)

_eat_until_sep(st, s) ==
    LET r == EatFrom(s, st.pos, <<>>)
    IN [st |-> [st EXCEPT !.pos = r.pos,
                          !.eats = Append(@, [from |-> st.pos, val |-> r.val, to |-> r.pos])],
        val |-> r.val]

\* _eat_until_sep().decode(encoding): the state, failed when decode raised.
EatString(st, s, encoding) ==
    LET e == _eat_until_sep(st, s)
        d == decode(e.val, encoding)
    IN [st |-> IF d.err = "none" THEN e.st ELSE Fail(e.st, d.err, "decode", -1, -1),
        val |-> d.val]

---------------------------------------------------------------------------
(* _Parser: the sections.                                                  *)

_parse_header(st, s) ==
    LET st1 == _expect(st, s, HEADER_START)
        e == EatString(st1, s, utf8)
        st2 == [e.st EXCEPT !.header = <<Header(e.val)>>, !.encoding = e.val]
    IN IF st1.err # "none" THEN st1
       ELSE IF e.st.err # "none" THEN e.st
       ELSE _expect(st2, s, HEADER_END)

\* _parse_layer with the objects of a layer numbered from 1.
_parse_layer_FromOne(st, s, _id) ==
    LET st1 == _expect(st, s, LAYER_START)
        name == EatString(st1, s, st1.encoding)
        number_of_entities == _read_as_int(name.st, s)
        objects == [i \in 1..number_of_entities.val |-> LayerObject(i, _id, <<>>, <<>>)]
        st2 == [number_of_entities.st EXCEPT
                    !.layers = Append(@, Layer(_id, name.val, objects))]
    IN IF st1.err # "none" THEN st1
       ELSE IF name.st.err # "none" THEN name.st
       ELSE _expect(st2, s, LAYER_END)

_parse_layer(st, s, _id) ==
    LET st1 == _expect(st, s, LAYER_START)
        name == EatString(st1, s, st1.encoding)
        number_of_entities == _read_as_int(name.st, s)
        objects == [i \in 1..number_of_entities.val |-> LayerObject(i - 1, _id, <<>>, <<>>)]
        st2 == [number_of_entities.st EXCEPT
                    !.layers = Append(@, Layer(_id, name.val, objects))]
    IN IF st1.err # "none" THEN st1
       ELSE IF name.st.err # "none" THEN name.st
       ELSE _expect(st2, s, LAYER_END)

RECURSIVE ParseLayersFrom(_, _, _, _)
ParseLayersFrom(st, s, i, number_of_layers) ==
    IF st.err # "none" \/ i >= number_of_layers THEN st
    ELSE ParseLayersFrom(_parse_layer(st, s, i), s, i + 1, number_of_layers)

_parse_layers(st, s) ==
    LET st1 == _expect(st, s, LAYERS_START)
        number_of_layers == _read_as_int(st1, s)
        st2 == ParseLayersFrom(number_of_layers.st, s, 0, number_of_layers.val)
    IN IF st1.err # "none" THEN st1
       ELSE _expect(st2, s, LAYERS_END)

\* self._temp_layer_objects[layer_id][object_id]: the list of a layer is the
\* one _parse_layer stored under its id, the position of the layer.
LookupError(st, layer_id, object_id) ==
    IF layer_id >= Len(st.layers) THEN "KeyError"
    ELSE IF object_id >= Len(st.layers[layer_id + 1].objects) THEN "IndexError"
    ELSE "none"

\* History: the stream named a layer id, and with it an object index or none
\* (-1) and an attribute name or none (''), and the position reached then.
Named(st, kind, layer_id, object_id, name) ==
    [st EXCEPT !.named = Append(@, [kind |-> kind, layer |-> layer_id, object |-> object_id,
                                    name |-> name, pos |-> st.pos])]

\* The loop body of _parse_relation.
ParsePair(st, s, parent_layer, children_layer) ==
    LET parent == _read_as_int(st, s)
        child == _read_as_int(parent.st, s)
        st1 == Named(Named(child.st, "pair", parent_layer, parent.val, Str(<<>>)),
                     "pair", children_layer, child.val, Str(<<>>))
        e1 == LookupError(st1, parent_layer, parent.val)
        e2 == LookupError(st1, children_layer, child.val)
    IN IF e1 # "none" THEN Fail(st1, e1, "lookup", parent_layer, parent.val)
       ELSE IF e2 # "none" THEN Fail(st1, e2, "lookup", children_layer, child.val)
       ELSE [st1 EXCEPT !.layers[parent_layer + 1].objects[parent.val + 1].children =
                            Append(@, <<children_layer + 1, child.val + 1>>)]

RECURSIVE ParsePairsFrom(_, _, _, _, _, _)
ParsePairsFrom(st, s, i, num_of_pairs, parent_layer, children_layer) ==
    IF st.err # "none" \/ i >= num_of_pairs THEN st
    ELSE ParsePairsFrom(ParsePair(st, s, parent_layer, children_layer), s, i + 1,
                        num_of_pairs, parent_layer, children_layer)

_parse_relation(st, s) ==
    LET st1 == _expect(st, s, RELATION_START)
        parent_layer == _read_as_int(st1, s)
        children_layer == _read_as_int(parent_layer.st, s)
        num_of_pairs == _read_as_int(children_layer.st, s)
        st2 == ParsePairsFrom(Named(Named(num_of_pairs.st, "group", parent_layer.val, -1,
                                          Str(<<>>)),
                                    "group", children_layer.val, -1, Str(<<>>)),
                              s, 0, num_of_pairs.val, parent_layer.val, children_layer.val)
    IN IF st1.err # "none" THEN st1
       ELSE _expect(st2, s, RELATION_END)

RECURSIVE ParseRelationsFrom(_, _, _, _)
ParseRelationsFrom(st, s, i, number_of_relations) ==
    IF st.err # "none" \/ i >= number_of_relations THEN st
    ELSE ParseRelationsFrom(_parse_relation(st, s), s, i + 1, number_of_relations)

_parse_relations(st, s) ==
    LET st1 == _expect(st, s, RELATIONS_START)
        number_of_relations == _read_as_int(st1, s)
        st2 == ParseRelationsFrom(number_of_relations.st, s, 0, number_of_relations.val)
    IN IF st1.err # "none" THEN st1
       ELSE _expect(st2, s, RELATIONS_END)

\* LayerObject.set_attr on object o (from 0) of layer l (from 0).
set_attr(st, l, o, key, value) ==
    [st EXCEPT !.layers[l + 1].objects[o + 1].attrs = DictSet(@, key, value)]

\* The loop of _parse_full_chunk with an empty value left out.
RECURSIVE ParseFullValuesFrom_DropsEmpty(_, _, _, _, _)
ParseFullValuesFrom_DropsEmpty(st, s, layer_id, attr_name, i) ==
    IF i >= Len(st.layers[layer_id + 1].objects) THEN st
    ELSE LET value == _eat_until_sep(st, s)
         IN ParseFullValuesFrom_DropsEmpty(
                IF value.val = <<>> THEN value.st
                ELSE set_attr(value.st, layer_id, i, attr_name, Bytes(value.val)),
                s, layer_id, attr_name, i + 1)

\* The loop of _parse_full_chunk over the objects of the layer.
RECURSIVE ParseFullValuesFrom(_, _, _, _, _)
ParseFullValuesFrom(st, s, layer_id, attr_name, i) ==
    IF i >= Len(st.layers[layer_id + 1].objects) THEN st
    ELSE LET value == _eat_until_sep(st, s)
         IN ParseFullValuesFrom(set_attr(value.st, layer_id, i, attr_name, Bytes(value.val)),
                                s, layer_id, attr_name, i + 1)

_parse_full_chunk(st, s) ==
    LET st1 == _expect(st, s, CHUNK_FULL_START)
        layer_id == _read_as_int(st1, s)
        attr_name == EatString(layer_id.st, s, st1.encoding)
        st2 == Named(attr_name.st, "full", layer_id.val, -1, attr_name.val)
    IN IF st1.err # "none" THEN st1
       ELSE IF st2.err # "none" THEN st2
       ELSE IF layer_id.val >= Len(st2.layers)
            THEN Fail(st2, "KeyError", "lookup", layer_id.val, -1)
       ELSE _expect(ParseFullValuesFrom(st2, s, layer_id.val, attr_name.val, 0), s, CHUNK_END)

\* The loop body of _parse_linked_chunk.
ParseEntry(st, s, layer_id, attr_name) ==
    LET object_id == _read_as_int(st, s)
        value == _eat_until_sep(object_id.st, s)
        st1 == Named(value.st, "entry", layer_id, object_id.val, attr_name)
        e == LookupError(st1, layer_id, object_id.val)
    IN IF e # "none" THEN Fail(st1, e, "lookup", layer_id, object_id.val)
       ELSE set_attr(st1, layer_id, object_id.val, attr_name, Bytes(value.val))

RECURSIVE ParseEntriesFrom(_, _, _, _, _, _)
ParseEntriesFrom(st, s, i, num_of_entries, layer_id, attr_name) ==
    IF st.err # "none" \/ i >= num_of_entries THEN st
    ELSE ParseEntriesFrom(ParseEntry(st, s, layer_id, attr_name), s, i + 1,
                          num_of_entries, layer_id, attr_name)

_parse_linked_chunk(st, s) ==
    LET st1 == _expect(st, s, CHUNK_LINKED_START)
        layer_id == _read_as_int(st1, s)
        attr_name == EatString(layer_id.st, s, st1.encoding)
        num_of_entries == _read_as_int(attr_name.st, s)
        st2 == ParseEntriesFrom(num_of_entries.st, s, 0, num_of_entries.val,
                                layer_id.val, attr_name.val)
    IN IF st1.err # "none" THEN st1
       ELSE IF attr_name.st.err # "none" THEN attr_name.st
       ELSE _expect(st2, s, CHUNK_END)

\* _parse_chunk with a peek that consumes the byte it looks at.
_parse_chunk_PeekConsumes(st, s) ==
    LET _next == _peek_as_int(st, s)
        st1 == [st EXCEPT !.peeks = Append(@, [pos |-> st.pos, byte |-> _next]),
                          !.pos = st.pos + 1]
    IN IF _next = CHUNK_FULL_START THEN _parse_full_chunk(st1, s)
       ELSE IF _next = CHUNK_LINKED_START THEN _parse_linked_chunk(st1, s)
       ELSE Fail(st1, "TBFParsingException", "chunk", CHUNK_FULL_START, _next)

_parse_chunk(st, s) ==
    LET _next == _peek_as_int(st, s)
        st1 == [st EXCEPT !.peeks = Append(@, [pos |-> st.pos, byte |-> _next])]
    IN IF _next = CHUNK_FULL_START THEN _parse_full_chunk(st1, s)
       ELSE IF _next = CHUNK_LINKED_START THEN _parse_linked_chunk(st1, s)
       ELSE Fail(st1, "TBFParsingException", "chunk", CHUNK_FULL_START, _next)

RECURSIVE ParseChunksFrom(_, _, _, _)
ParseChunksFrom(st, s, i, num_of_chunks) ==
    IF st.err # "none" \/ i >= num_of_chunks THEN st
    ELSE ParseChunksFrom(_parse_chunk(st, s), s, i + 1, num_of_chunks)

_parse_attrs(st, s) ==
    LET st1 == _expect(st, s, ATTRS_START)
        num_of_chunks == _read_as_int(st1, s)
        st2 == ParseChunksFrom(num_of_chunks.st, s, 0, num_of_chunks.val)
    IN IF st1.err # "none" THEN st1
       ELSE _expect(st2, s, ATTRS_END)

---------------------------------------------------------------------------
(* The documents the first _Writer is given: three families built with the *)
(* constructors of tbf.core.models.                                        *)

NameL == Str(<<76>>)                              \* 'L'
NameM == Str(<<77, 233>>)                         \* 'M\xe9'
KeyA == Str(<<97>>)                               \* 'a'
KeyB == Str(<<98>>)                               \* 'b'
ValX == Str(<<120>>)                              \* 'x'

\* Attribute values: 'x', '', '\xe9', 'x\x00y' and b'x'.
Values == {ValX, Str(<<>>), Str(<<233>>), Str(<<120, 0, 121>>), Bytes(<<120>>)}

Attr(k, v) == [k |-> k, v |-> v]

AttrChoices ==
    {<<>>} \cup {<<Attr(KeyA, v)>> : v \in Values}
           \cup {<<Attr(KeyB, v)>> : v \in Values}
           \cup {<<Attr(KeyA, v), Attr(KeyB, ValX)>> : v \in Values}

\* One layer of n objects whose leading objects carry attributes, and
\* possibly a second layer of one object.
VaryingLayers(n) ==
    { Layer(0, NameL, [i \in 1..n |->
                          LayerObject(i - 1, 0, <<>>,
                                      IF i <= MaxCarriers THEN c[i] ELSE <<>>)])
      : c \in [1..Min(n, MaxCarriers) -> AttrChoices] }

SecondLayers ==
    {<<>>} \cup { <<Layer(1, NameM, <<LayerObject(0, 1, <<>>, c)>>)>>
                  : c \in {<<>>, <<Attr(KeyA, Str(<<233>>))>>} }

DocsAttrs ==
    {Document(<<>>, Header(utf8))}
    \cup { Document(<<l0>> \o l1, Header(utf8))
           : l0 \in UNION {VaryingLayers(n) : n \in 0..MaxObjs}, l1 \in SecondLayers }

\* Two layers of two objects with up to MaxEdges child links, added in the
\* order of the sequence.
EdgePool == { <<p, c>> : p \in {<<1, 1>>, <<1, 2>>, <<2, 1>>},
                          c \in {<<1, 1>>, <<2, 1>>, <<2, 2>>} }

EdgeSeqs == UNION {[1..n -> EdgePool] : n \in 0..MaxEdges}

ChildrenOf(edges, p) ==
    LET mine == SelectSeq(edges, LAMBDA e : e[1] = p)
    IN [i \in 1..Len(mine) |-> mine[i][2]]

DocsRelations ==
    { Document(<< Layer(0, NameL, << LayerObject(0, 0, ChildrenOf(es, <<1, 1>>), at),
                                     LayerObject(1, 0, ChildrenOf(es, <<1, 2>>), <<>>) >>),
                  Layer(1, NameM, << LayerObject(0, 1, ChildrenOf(es, <<2, 1>>), <<>>),
                                     LayerObject(1, 1, <<>>, <<>>) >>) >>,
               Header(utf8))
      : es \in EdgeSeqs, at \in {<<>>, <<Attr(KeyA, ValX)>>} }

\* Layers and objects whose ids are not their positions: ids that repeat or
\* are out of order.
IrregularLayer0(lid) ==
    UNION { { Layer(lid, NameL, [i \in 1..n |-> LayerObject(ids[i], lid, k[i], at[i])])
              : ids \in [1..n -> {0, 1}],
                at \in [1..n -> {<<>>, <<Attr(KeyA, ValX)>>}],
                k \in [1..n -> {<<>>, <<<<2, 1>>>>}] }
            : n \in 1..2 }

DocsIrregular ==
    { Document(<<l0, Layer(i1, NameM, <<LayerObject(0, i1, k1, at1)>>)>>, Header(utf8))
      : l0 \in UNION {IrregularLayer0(i0) : i0 \in {0, 1}}, i1 \in {0, 1},
        at1 \in {<<>>, <<Attr(KeyA, ValX)>>, <<Attr(KeyB, ValX)>>},
        k1 \in {<<>>, <<<<1, 1>>>>} }

Documents == DocsAttrs \cup DocsRelations \cup DocsIrregular

---------------------------------------------------------------------------
(* The state machine.                                                      *)

\* _Parser.__init__ before any stream is given.
NoParser ==
    [pos |-> 0, layers |-> <<>>, header |-> <<>>, encoding |-> utf8,
     err |-> "none", short |-> <<>>, fail |-> <<>>, named |-> <<>>,
     marks |-> <<>>, peeks |-> <<>>, eats |-> <<>>]

Init ==
    /\ document \in Documents
    /\ phase = "encode"
    /\ wdoc = document
    /\ wpc = "prepare_relations"
    /\ output = <<>>
    /\ werr = "none"
    /\ temp_relations = <<>>
    /\ temp_num_of_relations = 0
    /\ temp_attributes = <<>>
    /\ temp_num_of_chunks = 0
    /\ wtrace = <<>>
    /\ chunks = <<>>
    /\ encoded = <<>>
    /\ stream = <<>>
    /\ ppc = "idle"
    /\ pstate = NoParser
    /\ objs = <<>>
    /\ mlayers = <<>>

\* One call of _Writer.write that writes a section: its bytes reach the
\* output, and an exception ends write.
Written(section, r, next) ==
    /\ output' = output \o r.out
    /\ werr' = r.err
    /\ wpc' = IF r.err = "none" THEN next ELSE "raised"
    /\ wtrace' = Append(wtrace, [section |-> section, bytes |-> r.out, err |-> r.err])

PrepareRelations ==
    /\ wpc = "prepare_relations"
    /\ LET r == _prepare_relations_for_writing(wdoc, temp_relations, temp_num_of_relations)
       IN /\ temp_relations' = r.rels
          /\ temp_num_of_relations' = r.num
    /\ wpc' = "prepare_attrs"
    /\ UNCHANGED <<document, mvars, phase, wdoc, output, werr, temp_attributes,
                   temp_num_of_chunks, wtrace, chunks, encoded, pvars>>

PrepareAttrs ==
    /\ wpc = "prepare_attrs"
    /\ LET r == _prepare_attrs_for_writing(wdoc, temp_attributes, temp_num_of_chunks)
       IN /\ temp_attributes' = r.attrs
          /\ temp_num_of_chunks' = r.num
    /\ wpc' = "header"
    /\ UNCHANGED <<document, mvars, phase, wdoc, output, werr, temp_relations,
                   temp_num_of_relations, wtrace, chunks, encoded, pvars>>

WriteHeader ==
    /\ wpc = "header"
    /\ Written("header", _write_header(wdoc), "layers")
    /\ UNCHANGED <<document, mvars, phase, wdoc, temp_relations, temp_num_of_relations,
                   temp_attributes, temp_num_of_chunks, chunks, encoded, pvars>>

WriteLayers ==
    /\ wpc = "layers"
    /\ Written("layers", _write_layers(wdoc), "relations")
    /\ UNCHANGED <<document, mvars, phase, wdoc, temp_relations, temp_num_of_relations,
                   temp_attributes, temp_num_of_chunks, chunks, encoded, pvars>>

WriteRelations ==
    /\ wpc = "relations"
    /\ Written("relations", _write_relations(temp_relations, temp_num_of_relations), "attrs")
    /\ UNCHANGED <<document, mvars, phase, wdoc, temp_relations, temp_num_of_relations,
                   temp_attributes, temp_num_of_chunks, chunks, encoded, pvars>>

WriteAttrs ==
    /\ wpc = "attrs"
    /\ LET r == _write_attrs(wdoc, temp_attributes, temp_num_of_chunks)
       IN /\ Written("attrs", r, "done")
          /\ chunks' = r.chunks
    /\ UNCHANGED <<document, mvars, phase, wdoc, temp_relations, temp_num_of_relations,
                   temp_attributes, temp_num_of_chunks, encoded, pvars>>

\* parse_from_bytes on the bytes the first _Writer wrote: _Parser.__init__.
ParseFromBytes ==
    /\ phase = "encode"
    /\ wpc = "done"
    /\ phase' = "decode"
    /\ encoded' = output
    /\ stream' = output
    /\ ppc' = "header"
    /\ pstate' = NoParser
    /\ UNCHANGED <<document, mvars, wvars>>

\* One call of _Parser.parse: an exception ends parse.
Parsed(st, next) ==
    /\ pstate' = st
    /\ ppc' = IF st.err = "none" THEN next ELSE "raised"
    /\ UNCHANGED <<document, mvars, phase, wvars, encoded, stream>>

ParseHeader == ppc = "header" /\ Parsed(_parse_header(pstate, stream), "layers")

ParseLayers == ppc = "layers" /\ Parsed(_parse_layers(pstate, stream), "relations")

ParseRelations == ppc = "relations" /\ Parsed(_parse_relations(pstate, stream), "attrs")

ParseAttrs == ppc = "attrs" /\ Parsed(_parse_attrs(pstate, stream), "done")

\* The Document parse returns.
ParsedDocument == Document(pstate.layers, pstate.header[1])

\* write_to_bytes on the Document parse returned: _Writer.__init__.
WriteAgain ==
    /\ phase = "decode"
    /\ ppc = "done"
    /\ phase' = "reencode"
    /\ wdoc' = ParsedDocument
    /\ wpc' = "prepare_relations"
    /\ output' = <<>>
    /\ werr' = "none"
    /\ temp_relations' = <<>>
    /\ temp_num_of_relations' = 0
    /\ temp_attributes' = <<>>
    /\ temp_num_of_chunks' = 0
    /\ wtrace' = <<>>
    /\ chunks' = <<>>
    /\ UNCHANGED <<document, mvars, encoded, pvars>>

Next ==
    \/ PrepareRelations
    \/ PrepareAttrs
    \/ WriteHeader
    \/ WriteLayers
    \/ WriteRelations
    \/ WriteAttrs
    \/ ParseFromBytes
    \/ ParseHeader
    \/ ParseLayers
    \/ ParseRelations
    \/ ParseAttrs
    \/ WriteAgain

Spec == Init /\ [][Next]_vars

---------------------------------------------------------------------------
(* What the properties below speak of.                                     *)

RECURSIVE Concat(_)
Concat(seqs) == IF seqs = <<>> THEN <<>> ELSE Head(seqs) \o Concat(Tail(seqs))

\* The attribute names the objects of a layer carry, and who carries them.
Carriers(layer, name) ==
    {o \in DOMAIN layer.objects : name \in DictKeys(layer.objects[o].attrs)}

NamesOf(layer) == UNION {DictKeys(layer.objects[o].attrs) : o \in DOMAIN layer.objects}

\* The data model of the specification: ids identify.
UniqueIds(doc) ==
    /\ \A i, j \in DOMAIN doc.layers : doc.layers[i].id = doc.layers[j].id => i = j
    /\ \A l \in DOMAIN doc.layers : \A i, j \in DOMAIN doc.layers[l].objects :
           doc.layers[l].objects[i].id = doc.layers[l].objects[j].id => i = j

\* A valid Document: ids are positions, every object names its own layer,
\* and every attribute value is text without the separator byte.
ValidDocument(doc) ==
    \A l \in DOMAIN doc.layers :
        /\ doc.layers[l].id = l - 1
        /\ \A o \in DOMAIN doc.layers[l].objects :
               LET obj == doc.layers[l].objects[o]
               IN /\ obj.id = o - 1
                  /\ obj.layer = l - 1
                  /\ \A a \in DOMAIN obj.attrs :
                         /\ obj.attrs[a].v.kind = "str"
                         /\ \A i \in DOMAIN obj.attrs[a].v.s : obj.attrs[a].v.s[i] # SEPARATOR

\* An attribute map with its values as bytes.
AttrMap(obj) ==
    { <<obj.attrs[a].k, IF obj.attrs[a].v.kind = "str" THEN Utf8Encode(obj.attrs[a].v.s)
                        ELSE obj.attrs[a].v.s>> : a \in DOMAIN obj.attrs }

\* The child references of an object as (layer id, object id) pairs.
ChildIds(doc, obj) ==
    [j \in DOMAIN obj.children |->
        <<Deref(doc, obj.children[j]).layer, Deref(doc, obj.children[j]).id>>]

Equivalent(d, p) ==
    /\ Len(d.layers) = Len(p.layers)
    /\ \A l \in DOMAIN d.layers :
        /\ l \in DOMAIN p.layers
        /\ d.layers[l].name = p.layers[l].name
        /\ Len(d.layers[l].objects) = Len(p.layers[l].objects)
        /\ \A o \in DOMAIN d.layers[l].objects :
            /\ o \in DOMAIN p.layers[l].objects
            /\ AttrMap(d.layers[l].objects[o]) = AttrMap(p.layers[l].objects[o])
            /\ ChildIds(d, d.layers[l].objects[o]) = ChildIds(p, p.layers[l].objects[o])

\* C1: for every valid Document, decoding the bytes of its encoding yields
\* an equivalent Document: the same layers by name and object count, and for
\* every object the same attribute map and the same ordered child references.
C1_RoundTrip ==
    ValidDocument(document) =>
        /\ phase = "encode" => wpc # "raised"
        /\ ppc # "raised"
        /\ ppc = "done" => Equivalent(document, ParsedDocument)

\* C2: for every byte string the encoder produced, encoding the Document
\* decoded from it completes and yields the same bytes again.
C2_Reencode ==
    phase = "reencode" =>
        /\ wpc # "raised"
        /\ wpc = "done" => output = encoded

\* C3: every chunk is written in one layout: linked when 5 * k < N, full
\* otherwise, for k the objects of the layer that carry the attribute and
\* N the objects of the layer.
C3_ChunkLayout ==
    UniqueIds(wdoc) =>
        \A i \in DOMAIN chunks : \A l \in DOMAIN wdoc.layers :
            wdoc.layers[l].id = chunks[i].layer_id =>
                LET k == Cardinality(Carriers(wdoc.layers[l], chunks[i].attr_name))
                    N == Len(wdoc.layers[l].objects)
                IN IF 5 * k < N
                   THEN chunks[i].layout = "linked" /\ chunks[i].bytes[1] = CHUNK_LINKED_START
                   ELSE chunks[i].layout = "full" /\ chunks[i].bytes[1] = CHUNK_FULL_START

\* The linked layout was chosen for a chunk of a layer of more than five
\* objects.
C3_Witness ==
    /\ UniqueIds(wdoc)
    /\ \E i \in DOMAIN chunks :
           /\ chunks[i].layout = "linked"
           /\ Len(get_layer_by_id(wdoc, chunks[i].layer_id).objects) > 5

\* The bytes of a value, whichever its kind.
ValueBytes(v) == IF v.kind = "str" THEN Utf8Encode(v.s) ELSE v.s

\* The linked layout of the format for attribute name of a layer.
LinkedLayout(layer, name) ==
    LET carriers == SelectSeq(layer.objects, LAMBDA o : name \in DictKeys(o.attrs))
    IN <<CHUNK_LINKED_START>> \o _int_to_bytes(layer.id) \o Utf8Encode(name.s)
       \o <<SEPARATOR>> \o _int_to_bytes(Len(carriers))
       \o Concat([i \in DOMAIN carriers |->
                     _int_to_bytes(carriers[i].id)
                     \o ValueBytes(DictGet(carriers[i].attrs, name)) \o <<SEPARATOR>>])
       \o <<CHUNK_END>>

\* C4: whenever the linked layout is selected for a chunk, encoding completes
\* and the chunk is CHUNK_LINKED_START, the layer id, the name, SEPARATOR, the
\* entry count, the entries (object id, value, SEPARATOR) and CHUNK_END.
C4_LinkedChunk ==
    UniqueIds(wdoc) =>
        \A i \in DOMAIN chunks : chunks[i].layout = "linked" =>
            /\ wpc # "raised"
            /\ chunks[i].err = "none"
            /\ \A l \in DOMAIN wdoc.layers : wdoc.layers[l].id = chunks[i].layer_id =>
                   chunks[i].bytes = LinkedLayout(wdoc.layers[l], chunks[i].attr_name)

\* The SEPARATOR bytes of a full chunk between the terminator of the name
\* and CHUNK_END.
ValueSeparators(chunk) ==
    LET from == 1 + 4 + Len(Utf8Encode(chunk.attr_name.s)) + 1
    IN {i \in (from + 1)..(Len(chunk.bytes) - 1) : chunk.bytes[i] = SEPARATOR}

\* C5: in every full chunk written for a layer of N objects, exactly N
\* SEPARATOR bytes lie between the terminator of the name and CHUNK_END.
C5_FullChunkSeparators ==
    UniqueIds(wdoc) =>
        \A i \in DOMAIN chunks : chunks[i].layout = "full" /\ chunks[i].err = "none" =>
            \A l \in DOMAIN wdoc.layers : wdoc.layers[l].id = chunks[i].layer_id =>
                Cardinality(ValueSeparators(chunks[i])) = Len(wdoc.layers[l].objects)

\* A u32 at an offset of a byte string.
U32At(b, pos) == from_bytes(SubSeq(b, pos + 1, pos + 4))

\* The n relation groups that start at an offset of the relations section.
RECURSIVE ReadGroups(_, _, _)
ReadGroups(b, pos, n) ==
    IF n = 0 THEN [ok |-> TRUE, pos |-> pos, groups |-> <<>>]
    ELSE IF pos + 13 > Len(b) \/ b[pos + 1] # RELATION_START
         THEN [ok |-> FALSE, pos |-> pos, groups |-> <<>>]
    ELSE LET count == U32At(b, pos + 9)
             last == pos + 13 + 8 * count
         IN IF last + 1 > Len(b) \/ b[last + 1] # RELATION_END
            THEN [ok |-> FALSE, pos |-> pos, groups |-> <<>>]
            ELSE LET rest == ReadGroups(b, last + 1, n - 1)
                     group == [parent |-> U32At(b, pos + 1), child |-> U32At(b, pos + 5),
                               count |-> count,
                               pairs |-> [i \in 1..count |->
                                             <<U32At(b, pos + 13 + 8 * (i - 1)),
                                               U32At(b, pos + 17 + 8 * (i - 1))>>]]
                 IN [ok |-> rest.ok, pos |-> rest.pos, groups |-> <<group>> \o rest.groups]

\* The edges of a Document: an object and a position in its child list.
EdgesOf(doc) ==
    { <<l, o, j>> \in (DOMAIN doc.layers) \X (1..MaxObjs + 1) \X (1..MaxEdges + 1) :
          /\ o \in DOMAIN doc.layers[l].objects
          /\ j \in DOMAIN doc.layers[l].objects[o].children }

EdgeParent(doc, e) == doc.layers[e[1]].objects[e[2]]
EdgeChild(doc, e) == Deref(doc, EdgeParent(doc, e).children[e[3]])

LayerPairs(doc) == { <<EdgeParent(doc, e).layer, EdgeChild(doc, e).layer>> : e \in EdgesOf(doc) }

EdgesBetween(doc, P, C) ==
    { e \in EdgesOf(doc) : EdgeParent(doc, e).layer = P /\ EdgeChild(doc, e).layer = C }

\* C6: the relations section holds one group for each pair of layer ids
\* joined by an edge, the group count is the number of these pairs, and the
\* pair count of a group is the number of pairs written in it, one for each
\* edge between its two layers.
C6_RelationGroups ==
    \A t \in DOMAIN wtrace : wtrace[t].section = "relations" /\ wtrace[t].err = "none" =>
        LET sec == wtrace[t].bytes
            n == U32At(sec, 1)
            r == ReadGroups(sec, 5, n)
        IN /\ sec[1] = RELATIONS_START
           /\ r.ok
           /\ r.pos + 1 = Len(sec)
           /\ sec[Len(sec)] = RELATIONS_END
           /\ n = Cardinality(LayerPairs(wdoc))
           /\ { <<r.groups[i].parent, r.groups[i].child>> : i \in DOMAIN r.groups }
                  = LayerPairs(wdoc)
           /\ \A i, j \in DOMAIN r.groups :
                  r.groups[i].parent = r.groups[j].parent
                      /\ r.groups[i].child = r.groups[j].child => i = j
           /\ \A i \in DOMAIN r.groups :
                  LET edges == EdgesBetween(wdoc, r.groups[i].parent, r.groups[i].child)
                  IN /\ r.groups[i].count = Cardinality(edges)
                     /\ { r.groups[i].pairs[j] : j \in DOMAIN r.groups[i].pairs }
                            = { <<EdgeParent(wdoc, e).id, EdgeChild(wdoc, e).id>> : e \in edges }

\* A relations section of two groups, one of them with two pairs.
C6_Witness ==
    \E t \in DOMAIN wtrace :
        /\ wtrace[t].section = "relations"
        /\ wtrace[t].err = "none"
        /\ U32At(wtrace[t].bytes, 1) = 2
        /\ \E P, C \in 0..1 : Cardinality(EdgesBetween(wdoc, P, C)) = 2

\* C7: the chunk count written after ATTRS_START is the number of chunks
\* written before ATTRS_END, one for each layer and attribute name that an
\* object of the layer carries, also when layers or objects share an id.
C7_ChunkCount ==
    \A t \in DOMAIN wtrace : wtrace[t].section = "attrs" /\ wtrace[t].err = "none" =>
        /\ U32At(wtrace[t].bytes, 1) = Len(chunks)
        /\ Len(chunks) = Cardinality({ <<l, name>> \in (DOMAIN wdoc.layers) \X {KeyA, KeyB} :
                                          name \in NamesOf(wdoc.layers[l]) })

\* The header and the layers section of the format.
HeaderLayout(doc) ==
    <<HEADER_START>> \o Utf8Encode(doc.header.encoding.s) \o <<SEPARATOR, HEADER_END>>

LayersLayout(doc) ==
    <<LAYERS_START>> \o _int_to_bytes(Len(doc.layers))
    \o Concat([l \in DOMAIN doc.layers |->
                  <<LAYER_START>> \o Utf8Encode(doc.layers[l].name.s) \o <<SEPARATOR>>
                  \o _int_to_bytes(Len(doc.layers[l].objects)) \o <<LAYER_END>>])
    \o <<LAYERS_END>>

SectionOrder == <<"header", "layers", "relations", "attrs">>
SectionStart == <<HEADER_START, LAYERS_START, RELATIONS_START, ATTRS_START>>
SectionEnd == <<HEADER_END, LAYERS_END, RELATIONS_END, ATTRS_END>>

\* C8: the sections are written once each in the order header, layers,
\* relations, attributes; a completed encode holds the four of them, each
\* from its START marker to its END marker, the layers in list order as
\* LAYER_START, name, SEPARATOR, object count, LAYER_END, and ATTRS_END last.
C8_SectionOrder ==
    /\ Len(wtrace) <= 4
    /\ \A t \in DOMAIN wtrace : wtrace[t].section = SectionOrder[t]
    /\ output = Concat([t \in DOMAIN wtrace |-> wtrace[t].bytes])
    /\ wpc = "done" =>
        /\ Len(wtrace) = 4
        /\ \A t \in DOMAIN wtrace :
               /\ wtrace[t].bytes[1] = SectionStart[t]
               /\ wtrace[t].bytes[Len(wtrace[t].bytes)] = SectionEnd[t]
        /\ wtrace[1].bytes = HeaderLayout(wdoc)
        /\ wtrace[2].bytes = LayersLayout(wdoc)
        /\ output[Len(output)] = ATTRS_END

\* A completed encode of a Document of two layers.
C8_Witness == phase = "encode" /\ wpc = "done" /\ Len(wdoc.layers) = 2

---------------------------------------------------------------------------
(* Decoding of streams that no _Writer wrote: cut or altered ones.          *)

\* _Writer.write: the bytes of a Document.
write(doc) ==
    LET rels == _prepare_relations_for_writing(doc, <<>>, 0)
        attrs == _prepare_attrs_for_writing(doc, <<>>, 0)
        a == _write_attrs(doc, attrs.attrs, attrs.num)
    IN Then(_write_header(doc),
       Then(_write_layers(doc),
       Then(_write_relations(rels.rels, rels.num),
            [out |-> a.out, err |-> a.err])))

\* A Document of two layers with a relation and with full chunks.
SampleDocument ==
    Document(<< Layer(0, NameL, << LayerObject(0, 0, << <<2, 1>> >>, <<Attr(KeyA, ValX)>>),
                                   LayerObject(1, 0, <<>>, <<>>) >>),
                Layer(1, NameM, << LayerObject(0, 1, <<>>, <<Attr(KeyB, Str(<<233>>))>>) >>) >>,
             Header(utf8))

\* A stream with a linked chunk: one layer of six objects, the second of
\* which has 'a' = 'x'.
LinkedStream ==
    <<HEADER_START, 117, 116, 102, 45, 56, SEPARATOR, HEADER_END,
      LAYERS_START, 0, 0, 0, 1, LAYER_START, 76, SEPARATOR, 0, 0, 0, 6, LAYER_END, LAYERS_END,
      RELATIONS_START, 0, 0, 0, 0, RELATIONS_END,
      ATTRS_START, 0, 0, 0, 1,
      CHUNK_LINKED_START, 0, 0, 0, 0, 97, SEPARATOR, 0, 0, 0, 1, 0, 0, 0, 1, 120, SEPARATOR,
      CHUNK_END, ATTRS_END>>

WholeStreams == {write(SampleDocument).out, LinkedStream}

\* The streams cut at any length, and the ones with one byte that is not 0
\* replaced by a byte that is no marker.
CutStreams == { SubSeq(s, 1, n) : <<s, n>> \in { <<s, n>> \in WholeStreams \X (0..80) : n <= Len(s) } }

AlteredStreams ==
    { [s[1] EXCEPT ![s[2]] = 17] :
          s \in { <<s, i>> \in WholeStreams \X (1..80) : i <= Len(s) /\ s[i] # 0 } }

\* Streams that declare two layers, 'L' of two objects and 'M\xe9' of one,
\* and name layer ids and object indices up to MaxId in one relation group
\* or in one chunk.
U32s(numbers) == Concat([i \in DOMAIN numbers |-> _int_to_bytes(numbers[i])])

StreamOf(relations, attrs) ==
    <<HEADER_START, 117, 116, 102, 45, 56, SEPARATOR, HEADER_END,
      LAYERS_START, 0, 0, 0, 2, LAYER_START, 76, SEPARATOR, 0, 0, 0, 2, LAYER_END,
      LAYER_START, 77, 195, 169, SEPARATOR, 0, 0, 0, 1, LAYER_END, LAYERS_END>>
    \o <<RELATIONS_START>> \o relations \o <<RELATIONS_END>>
    \o <<ATTRS_START>> \o attrs \o <<ATTRS_END>>

GroupStreams ==
    { StreamOf(U32s(<<1>>) \o <<RELATION_START>> \o U32s(<<P, C, Len(pairs)>>)
                   \o Concat([i \in DOMAIN pairs |-> U32s(pairs[i])])
                   \o <<RELATION_END>>, U32s(<<0>>))
      : P \in 0..MaxId, C \in 0..MaxId,
        pairs \in {<<>>} \cup { <<pair>> : pair \in (0..MaxId) \X (0..MaxId) } }

Runs == {<<>>, <<120>>}

FullStreams ==
    { StreamOf(U32s(<<0>>), U32s(<<1>>) \o <<CHUNK_FULL_START>> \o U32s(<<l>>)
                                \o <<97, SEPARATOR>>
                                \o Concat([i \in DOMAIN runs |-> runs[i] \o <<SEPARATOR>>])
                                \o <<CHUNK_END>>)
      : l \in 0..MaxId, runs \in UNION {[1..n -> Runs] : n \in 0..2} }

LinkedStreams ==
    { StreamOf(U32s(<<0>>), U32s(<<1>>) \o <<CHUNK_LINKED_START>> \o U32s(<<l>>)
                                \o <<97, SEPARATOR>> \o U32s(<<Len(entries)>>)
                                \o Concat([i \in DOMAIN entries |->
                                               _int_to_bytes(entries[i][1]) \o entries[i][2]
                                               \o <<SEPARATOR>>])
                                \o <<CHUNK_END>>)
      : l \in 0..MaxId,
        entries \in {<<>>} \cup { <<e>> : e \in (0..MaxId) \X Runs } }

Streams == CutStreams \cup AlteredStreams \cup GroupStreams \cup FullStreams \cup LinkedStreams

InitDecode ==
    /\ document = SampleDocument
    /\ phase = "decode"
    /\ wdoc = document
    /\ wpc = "idle"
    /\ output = <<>>
    /\ werr = "none"
    /\ temp_relations = <<>>
    /\ temp_num_of_relations = 0
    /\ temp_attributes = <<>>
    /\ temp_num_of_chunks = 0
    /\ wtrace = <<>>
    /\ chunks = <<>>
    /\ encoded = <<>>
    /\ stream \in Streams
    /\ ppc = "header"
    /\ pstate = NoParser
    /\ objs = <<>>
    /\ mlayers = <<>>

NextDecode ==
    \/ ParseHeader
    \/ ParseLayers
    \/ ParseRelations
    \/ ParseAttrs

SpecDecode == InitDecode /\ [][NextDecode]_vars

\* C9: where the decoder expects a marker it reads one byte, and a decode
\* that an expectation stopped has read a byte that differs from the marker
\* and stopped with TBFParsingException, with no Document to return.
C9_Expect ==
    \A i \in DOMAIN pstate.fail : pstate.fail[i].op = "expect" =>
        /\ ppc = "raised"
        /\ pstate.fail[i].pos < Len(stream)
        /\ pstate.fail[i].got = stream[pstate.fail[i].pos + 1]
        /\ pstate.fail[i].got # pstate.fail[i].expected
        /\ pstate.err = "TBFParsingException"

\* C10: a u32 field that the end of the stream cuts short stops the decode
\* with an error at that field; its bytes are never taken as a value with
\* which parsing goes on.
C10_TruncatedInt ==
    \A i \in DOMAIN pstate.short :
        /\ ppc = "raised"
        /\ pstate.fail # <<>>
        /\ pstate.fail[1].op = "read_as_int"
        /\ pstate.fail[1].pos = pstate.short[i].pos

\* What the stream named is there: a layer the layers section declared, and
\* an object index below the object count of that layer.
Declared(n) ==
    /\ n.layer < Len(pstate.layers)
    /\ n.object # -1 => n.object < Len(pstate.layers[n.layer + 1].objects)

\* C11: a decode in which a relation group, a relation pair, a full chunk or
\* an entry of a linked chunk named a layer id that was not declared, or an
\* object index not below the object count of the layer, has failed; and
\* in a Document that decode returns the layer id of every object and of
\* every child is the id of a layer of the Document.
C11_DeclaredIds ==
    /\ \A i \in DOMAIN pstate.named : ~Declared(pstate.named[i]) => ppc = "raised"
    /\ ppc = "done" =>
           \A l \in DOMAIN pstate.layers : \A o \in DOMAIN pstate.layers[l].objects :
               /\ HasLayer(ParsedDocument, pstate.layers[l].objects[o].layer)
               /\ \A c \in DOMAIN pstate.layers[l].objects[o].children :
                      LET ref == pstate.layers[l].objects[o].children[c]
                      IN /\ ref[1] \in DOMAIN pstate.layers
                         /\ ref[2] \in DOMAIN pstate.layers[ref[1]].objects
                         /\ HasLayer(ParsedDocument, Deref(ParsedDocument, ref).layer)

\* The bytes of a stream from an offset up to the next SEPARATOR, or up to
\* the end when there is none.
RunAt(b, pos) ==
    LET seps == {i \in (pos + 1)..Len(b) : b[i] = SEPARATOR}
        stop == IF seps = {} THEN Len(b) + 1
                ELSE CHOOSE i \in seps : \A j \in seps : i <= j
    IN SubSeq(b, pos + 1, stop - 1)

\* The n layer declarations that start at an offset of a stream.
RECURSIVE ReadDecls(_, _, _)
ReadDecls(b, pos, n) ==
    IF n = 0 THEN <<>>
    ELSE LET name == RunAt(b, pos + 1)
             after == pos + 1 + Len(name) + 1
         IN <<[name |-> name, count |-> U32At(b, after)]>> \o ReadDecls(b, after + 5, n - 1)

\* The position of the marker a section has consumed.
MarkOf(byte) == (CHOOSE i \in DOMAIN pstate.marks : pstate.marks[i].byte = byte)

LayersParsed == \E i \in DOMAIN pstate.marks : pstate.marks[i].byte = LAYERS_END

\* C12: once the layers section is parsed, the Document holds as many layers
\* as the section declared, the i-th with id i, the declared name and the
\* declared number of objects, with ids 0, 1, ... in order and layer id i,
\* and the id index of the Document maps i to that layer.
C12_LayersSection ==
    LayersParsed =>
        LET start == pstate.marks[MarkOf(LAYERS_START)].pos
            c == U32At(stream, start + 1)
            decls == ReadDecls(stream, start + 5, c)
        IN /\ Len(pstate.layers) = c
           /\ \A i \in 1..c :
                  LET layer == pstate.layers[i]
                  IN /\ layer.id = i - 1
                     /\ layer.name = Str(Utf8DecodeFrom(decls[i].name, 1).s)
                     /\ Len(layer.objects) = decls[i].count
                     /\ \A o \in DOMAIN layer.objects :
                            layer.objects[o].id = o - 1 /\ layer.objects[o].layer = i - 1
                     /\ get_layer_by_id([layers |-> pstate.layers], i - 1) = layer

\* The layers section of two layers is parsed, the first of two objects.
C12_Witness ==
    /\ LayersParsed
    /\ ppc = "relations"
    /\ Len(pstate.layers) = 2
    /\ Len(pstate.layers[1].objects) = 2

\* The encoded strings of a Document: the layer names, the attribute names
\* and the attribute values.
StringFields(doc) ==
    { ValueBytes(doc.layers[l].name) : l \in DOMAIN doc.layers }
    \cup UNION { UNION { { ValueBytes(doc.layers[l].objects[o].attrs[a].k),
                           ValueBytes(doc.layers[l].objects[o].attrs[a].v) }
                         : a \in DOMAIN doc.layers[l].objects[o].attrs }
                 : <<l, o>> \in { r \in (DOMAIN doc.layers) \X (1..MaxObjs + 1) :
                                      r[2] \in DOMAIN doc.layers[r[1]].objects } }

HasSeparator(b) == \E i \in DOMAIN b : b[i] = SEPARATOR

\* C13: encoding a Document one of whose strings (a layer name, an attribute
\* name or an attribute value) holds the SEPARATOR byte in its encoded form
\* fails: no write of such a Document completes.
C13_SeparatorInString ==
    (\E b \in StringFields(wdoc) : HasSeparator(b)) => wpc # "done"

\* The full layout of the format for attribute name of a layer.
FullLayout(layer, name) ==
    <<CHUNK_FULL_START>> \o _int_to_bytes(layer.id) \o Utf8Encode(name.s) \o <<SEPARATOR>>
    \o Concat([o \in DOMAIN layer.objects |->
                  (IF name \in DictKeys(layer.objects[o].attrs)
                   THEN ValueBytes(DictGet(layer.objects[o].attrs, name)) ELSE <<>>)
                  \o <<SEPARATOR>>])
    \o <<CHUNK_END>>

\* C14: the writer takes an attribute value as text or as raw bytes: a full
\* chunk is written to its end with the text encoded and the raw bytes
\* unchanged; and every attribute value of a decoded Document is raw bytes.
C14_ValueForms ==
    /\ UniqueIds(wdoc) =>
           \A i \in DOMAIN chunks : chunks[i].layout = "full" =>
               /\ chunks[i].err = "none"
               /\ \A l \in DOMAIN wdoc.layers : wdoc.layers[l].id = chunks[i].layer_id =>
                      chunks[i].bytes = FullLayout(wdoc.layers[l], chunks[i].attr_name)
    /\ \A l \in DOMAIN pstate.layers : \A o \in DOMAIN pstate.layers[l].objects :
           \A a \in DOMAIN pstate.layers[l].objects[o].attrs :
               pstate.layers[l].objects[o].attrs[a].v.kind = "bytes"

---------------------------------------------------------------------------
(* The model API of tbf.core.models used on its own. A LayerObject is an    *)
(* entry of objs, and the object list of a Layer holds positions of objs,   *)
(* so that one object can be in two lists.                                  *)

InitModels ==
    /\ document = Document(<<>>, Header(utf8))
    /\ phase = "models"
    /\ wdoc = document
    /\ wpc = "idle"
    /\ output = <<>>
    /\ werr = "none"
    /\ temp_relations = <<>>
    /\ temp_num_of_relations = 0
    /\ temp_attributes = <<>>
    /\ temp_num_of_chunks = 0
    /\ wtrace = <<>>
    /\ chunks = <<>>
    /\ encoded = <<>>
    /\ stream = <<>>
    /\ ppc = "idle"
    /\ pstate = NoParser
    /\ objs = <<>>
    /\ mlayers = <<>>

\* Lists of at most MaxList objects that exist.
ObjectLists == UNION {[1..n -> DOMAIN objs] : n \in 0..MaxList}

\* LayerObject(_id, layer_id)
NewLayerObject ==
    /\ Len(objs) < MaxHeap
    /\ \E layer_id \in 0..1 : objs' = Append(objs, [id |-> Len(objs), layer |-> layer_id])
    /\ UNCHANGED <<document, phase, wvars, encoded, pvars, mlayers>>

\* Layer(_id, name, objects): the objects are stored as they are given.
NewLayer ==
    /\ Len(mlayers) < MaxModelLayers
    /\ \E _id \in 0..1, objects \in ObjectLists :
           mlayers' = Append(mlayers, [id |-> _id, objects |-> objects])
    /\ UNCHANGED <<document, phase, wvars, encoded, pvars, objs>>

\* Layer.add_object on the state (objs, mlayers) given as a record.
add_object(m, l, obj) ==
    [objs |-> [m.objs EXCEPT ![obj].layer = m.mlayers[l].id],
     mlayers |-> [m.mlayers EXCEPT ![l].objects = Append(@, obj)]]

\* Layer.add_objects
RECURSIVE add_objects(_, _, _)
add_objects(m, l, objects) ==
    IF objects = <<>> THEN m
    ELSE add_objects(add_object(m, l, Head(objects)), l, Tail(objects))

AddObject ==
    /\ \E l \in DOMAIN mlayers, obj \in DOMAIN objs :
           /\ Len(mlayers[l].objects) < MaxList
           /\ LET m == add_object([objs |-> objs, mlayers |-> mlayers], l, obj)
              IN objs' = m.objs /\ mlayers' = m.mlayers
    /\ UNCHANGED <<document, phase, wvars, encoded, pvars>>

AddObjects ==
    /\ \E l \in DOMAIN mlayers, objects \in ObjectLists :
           /\ Len(objects) = 2
           /\ Len(mlayers[l].objects) + Len(objects) <= MaxList
           /\ LET m == add_objects([objs |-> objs, mlayers |-> mlayers], l, objects)
              IN objs' = m.objs /\ mlayers' = m.mlayers
    /\ UNCHANGED <<document, phase, wvars, encoded, pvars>>

NextModels ==
    \/ NewLayerObject
    \/ NewLayer
    \/ AddObject
    \/ AddObjects

SpecModels == InitModels /\ [][NextModels]_vars

\* C15: whatever model operations were made, every object in the object
\* list of a Layer has the id of that Layer as its layer id.
C15_LayerOfObject ==
    \A l \in DOMAIN mlayers : \A i \in DOMAIN mlayers[l].objects :
        objs[mlayers[l].objects[i]].layer = mlayers[l].id

\* The markers that open and close the sections, in the order of the format.
SectionMarkers ==
    <<HEADER_START, HEADER_END, LAYERS_START, LAYERS_END,
      RELATIONS_START, RELATIONS_END, ATTRS_START, ATTRS_END>>

\* The section markers the parser has consumed, in the order it consumed them.
SectionMarks ==
    SelectSeq(pstate.marks, LAMBDA m : \E i \in DOMAIN SectionMarkers : SectionMarkers[i] = m.byte)

\* The sections parse has left when it is about to make a call.
SectionsLeft ==
    [header |-> 0, layers |-> 1, relations |-> 2, attrs |-> 3, done |-> 4]

\* C16: the parser goes through header, layers, relations, attributes in
\* this order, once each: it enters a section by consuming its START marker
\* and leaves it by consuming its END marker, and it is at a section only
\* when it has left all the sections before it. Every marker it consumed is
\* a byte of the stream, further on than the one before. The byte it peeks
\* at to choose the layout of a chunk is not consumed: the parser of the
\* chunk consumes it as the START marker of the chunk.
C16_SectionsInOrder ==
    /\ Len(SectionMarks) <= Len(SectionMarkers)
    /\ \A i \in DOMAIN SectionMarks : SectionMarks[i].byte = SectionMarkers[i]
    /\ ppc \in DOMAIN SectionsLeft => Len(SectionMarks) = 2 * SectionsLeft[ppc]
    /\ \A i \in DOMAIN pstate.marks :
           /\ pstate.marks[i].pos < Len(stream)
           /\ stream[pstate.marks[i].pos + 1] = pstate.marks[i].byte
           /\ i > 1 => pstate.marks[i - 1].pos < pstate.marks[i].pos
    /\ \A k \in DOMAIN pstate.peeks :
           /\ pstate.peeks[k].byte =
                  (IF pstate.peeks[k].pos < Len(stream) THEN stream[pstate.peeks[k].pos + 1] ELSE 0)
           /\ pstate.peeks[k].byte \in {CHUNK_FULL_START, CHUNK_LINKED_START} =>
                  \E i \in DOMAIN pstate.marks :
                      /\ pstate.marks[i].pos = pstate.peeks[k].pos
                      /\ pstate.marks[i].byte = pstate.peeks[k].byte

\* A decode that went through the four sections and peeked at a chunk.
C16_Witness == ppc = "done" /\ pstate.peeks # <<>> /\ Len(SectionMarks) = 8

\* The n runs of a full chunk that start at an offset of a stream, each up
\* to its SEPARATOR.
RECURSIVE FullRuns(_, _, _)
FullRuns(b, pos, n) ==
    IF n = 0 THEN <<>>
    ELSE LET run == RunAt(b, pos)
         IN <<run>> \o FullRuns(b, pos + Len(run) + 1, n - 1)

\* The full chunks the parser has parsed to their CHUNK_END, and after which
\* no chunk named the same attribute of the same layer.
FullChunksParsed ==
    { k \in DOMAIN pstate.named :
          /\ pstate.named[k].kind = "full"
          /\ \E i \in DOMAIN pstate.marks :
                 pstate.marks[i].byte = CHUNK_END /\ pstate.marks[i].pos >= pstate.named[k].pos
          /\ \A j \in DOMAIN pstate.named :
                 j > k /\ pstate.named[j].kind \in {"full", "entry"} =>
                     ~(pstate.named[j].layer = pstate.named[k].layer
                         /\ pstate.named[j].name = pstate.named[k].name) }

\* C17: after a full chunk for attribute A of a layer of N objects is parsed,
\* each of the N objects has A, the i-th with the i-th run of the chunk as
\* bytes, an empty run as empty bytes; so an object that lacked A in the
\* Document that was encoded has A with empty bytes in the decoded one.
C17_FullChunkValues ==
    /\ \A k \in FullChunksParsed :
           LET n == pstate.named[k]
               objects == pstate.layers[n.layer + 1].objects
               runs == FullRuns(stream, n.pos, Len(objects))
           IN \A i \in DOMAIN objects :
                  /\ n.name \in DictKeys(objects[i].attrs)
                  /\ DictGet(objects[i].attrs, n.name) = Bytes(runs[i])
    /\ ValidDocument(document) /\ phase = "decode" /\ stream = encoded /\ ppc = "done" =>
           \A l \in DOMAIN document.layers : \A o \in DOMAIN document.layers[l].objects :
               \A name \in NamesOf(document.layers[l]) \ DictKeys(document.layers[l].objects[o].attrs) :
                   /\ name \in DictKeys(pstate.layers[l].objects[o].attrs)
                   /\ DictGet(pstate.layers[l].objects[o].attrs, name) = Bytes(<<>>)

\* A full chunk of a layer of more than one object was parsed, one object
\* of which lacked the attribute when the Document was encoded.
C17_Witness ==
    /\ ValidDocument(document) /\ phase = "decode" /\ ppc = "done"
    /\ \E k \in FullChunksParsed :
           /\ Len(pstate.layers[pstate.named[k].layer + 1].objects) > 1
           /\ \E o \in DOMAIN document.layers[pstate.named[k].layer + 1].objects :
                  pstate.named[k].name
                      \notin DictKeys(document.layers[pstate.named[k].layer + 1].objects[o].attrs)

---------------------------------------------------------------------------
(* _eat_until_sep and _read on streams of any bytes.                        *)

\* The bytes of these streams: the separator, 'x' and a marker.
EatBytes == {SEPARATOR, 120, CHUNK_END}

InitEat ==
    /\ document = Document(<<>>, Header(utf8))
    /\ phase = "eat"
    /\ wdoc = document
    /\ wpc = "idle"
    /\ output = <<>>
    /\ werr = "none"
    /\ temp_relations = <<>>
    /\ temp_num_of_relations = 0
    /\ temp_attributes = <<>>
    /\ temp_num_of_chunks = 0
    /\ wtrace = <<>>
    /\ chunks = <<>>
    /\ encoded = <<>>
    /\ stream \in UNION {[1..n -> EatBytes] : n \in 0..MaxLen}
    /\ ppc = "eat"
    /\ pstate = NoParser
    /\ objs = <<>>
    /\ mlayers = <<>>

\* A call of _eat_until_sep; at the end of the stream it is called once.
EatUntilSep ==
    /\ ppc = "eat"
    /\ pstate.pos < Len(stream) \/ pstate.eats = <<>>
    /\ pstate' = _eat_until_sep(pstate, stream).st
    /\ UNCHANGED <<document, mvars, phase, wvars, encoded, stream, ppc>>

\* A call of _read(1) before the end of the stream.
ReadByte ==
    /\ ppc = "eat"
    /\ pstate.pos < Len(stream)
    /\ pstate' = [pstate EXCEPT !.pos = @ + Len(_read(stream, pstate.pos, 1))]
    /\ UNCHANGED <<document, mvars, phase, wvars, encoded, stream, ppc>>

NextEat ==
    \/ EatUntilSep
    \/ ReadByte

SpecEat == InitEat /\ [][NextEat]_vars

\* C18: _eat_until_sep returns the bytes from the position of the stream up
\* to the next SEPARATOR and leaves the stream right after that separator;
\* when no separator is left it returns all the bytes left and leaves the
\* stream at its end.
C18_EatUntilSep ==
    \A k \in DOMAIN pstate.eats :
        LET e == pstate.eats[k]
            seps == {i \in (e.from + 1)..Len(stream) : stream[i] = SEPARATOR}
        IN /\ e.val = RunAt(stream, e.from)
           /\ \A i \in DOMAIN e.val : e.val[i] # SEPARATOR
           /\ IF seps = {}
              THEN e.to = Len(stream) /\ e.val = SubSeq(stream, e.from + 1, Len(stream))
              ELSE /\ e.to = e.from + Len(e.val) + 1
                   /\ stream[e.to] = SEPARATOR
                   /\ \A i \in seps : e.to <= i
           /\ k = Len(pstate.eats) => e.to <= pstate.pos

\* A call right after a separator that returned an empty run at the next
\* separator, and a call that returned the bytes left up to the end.
C18_Witness ==
    \E j, k \in DOMAIN pstate.eats :
        /\ pstate.eats[j].val = <<>>
        /\ pstate.eats[j].from > 0
        /\ stream[pstate.eats[j].from] = SEPARATOR
        /\ pstate.eats[j].to = pstate.eats[j].from + 1
        /\ pstate.eats[k].val # <<>>
        /\ pstate.eats[k].to = Len(stream)
        /\ stream[Len(stream)] # SEPARATOR

=============================================================================
